---- MODULE Spec2Model ----
(***************************************************************************)
(* A model of hosts/hosts.py: the HostsEntry value, the Hosts collection   *)
(* (entries + the file at hosts_path) and its operations populate_entries, *)
(* write, add, count and remove.                                           *)
(*                                                                         *)
(* Text is a sequence of characters.  The characters that the code looks   *)
(* at one by one ("#", newline, blank, tab) are single characters; an      *)
(* address or a hostname fragment is one lexical atom ("1.1.1.1", "a"),    *)
(* so a whitespace-separated token is a non-empty sequence of atoms.       *)
(* Python's None is the empty sequence <<>>: the constructor never stores  *)
(* an empty address, names or comment where the code tests truthiness.     *)
(* A HostsEntry object has an identity (id): list.remove() finds its       *)
(* argument by identity because HostsEntry defines no __eq__.              *)
(***************************************************************************)
EXTENDS Integers, Sequences, FiniteSets, TLC

NL == "\n"
TAB == "\t"
SP == " "
HASH == "#"
Whitespace == {SP, TAB, NL}

None == <<>>

(***************************************************************************)
(* Bounds of the model.                                                    *)
(***************************************************************************)
MaxEntries == 3
MaxFileLines == 2
MaxFaults == 1
MaxEntriesIO == 2

(***************************************************************************)
(* str methods used by the code.                                           *)
(***************************************************************************)
RECURSIVE split_from(_, _)
split_from(s, cur) ==
    IF s = <<>>
    THEN IF cur = <<>> THEN <<>> ELSE <<cur>>
    ELSE IF Head(s) \in Whitespace
         THEN IF cur = <<>>
              THEN split_from(Tail(s), <<>>)
              ELSE <<cur>> \o split_from(Tail(s), <<>>)
         ELSE split_from(Tail(s), Append(cur, Head(s)))

\* str.split(): the maximal runs of non-whitespace characters
split(s) == split_from(s, <<>>)

RECURSIVE lstrip(_)
lstrip(s) ==
    IF s # <<>> /\ Head(s) \in Whitespace THEN lstrip(Tail(s)) ELSE s

RECURSIVE rstrip(_)
rstrip(s) ==
    IF s # <<>> /\ s[Len(s)] \in Whitespace
    THEN rstrip(SubSeq(s, 1, Len(s) - 1))
    ELSE s

\* str.strip()
strip(s) == rstrip(lstrip(s))

RECURSIVE join(_, _)
\* sep.join(parts)
join(sep, parts) ==
    IF parts = <<>> THEN <<>>
    ELSE IF Len(parts) = 1 THEN parts[1]
    ELSE parts[1] \o sep \o join(sep, Tail(parts))

RECURSIVE file_lines(_, _)
\* iterating an open text file: the lines, each with its terminator
file_lines(s, cur) ==
    IF s = <<>>
    THEN IF cur = <<>> THEN <<>> ELSE <<cur>>
    ELSE IF Head(s) = NL
         THEN <<Append(cur, NL)>> \o file_lines(Tail(s), <<>>)
         ELSE file_lines(Tail(s), Append(cur, Head(s)))

(***************************************************************************)
(* utils.is_ipv4, utils.is_ipv6, utils.valid_hostnames: syntactic          *)
(* validators of one token (a list of tokens for valid_hostnames).         *)
(***************************************************************************)
IPv4Atoms == {"1.1.1.1", "2.2.2.2"}
IPv6Atoms == {"::1"}
NameAtoms == {"a", "b", "c"}

is_ipv4(tok) == Len(tok) = 1 /\ tok[1] \in IPv4Atoms

is_ipv6(tok) == Len(tok) = 1 /\ tok[1] \in IPv6Atoms

valid_hostnames(toks) ==
    \A i \in 1..Len(toks) :
        \A j \in 1..Len(toks[i]) : toks[i][j] \in NameAtoms \cup IPv4Atoms

(***************************************************************************)
(* HostsEntry.__init__                                                     *)
(***************************************************************************)
EntryTypes == {"ipv4", "ipv6", "comment", "blank"}

\* the exception __init__ raises for these arguments, "" when it returns
HostsEntry_raises(entry_type, address, comment, names) ==
    IF entry_type \notin EntryTypes THEN "Exception"
    ELSE IF entry_type = "comment" /\ comment = None THEN "Exception"
    ELSE IF entry_type = "ipv4" /\ (address = None \/ names = None)
         THEN "Exception"
    ELSE IF entry_type = "ipv4" /\ ~is_ipv4(address)
         THEN "InvalidIPv4Address"
    ELSE IF entry_type = "ipv6" /\ (address = None \/ names = None)
         THEN "Exception"
    ELSE IF entry_type = "ipv6" /\ ~is_ipv6(address)
         THEN "InvalidIPv6Address"
    ELSE ""

IsAddressType(entry) == entry.entry_type \in {"ipv4", "ipv6"}

\* the object __init__ builds; id is the object's identity
HostsEntry(id, entry_type, address, comment, names) ==
    [id |-> id, entry_type |-> entry_type, address |-> address,
     comment |-> comment, names |-> names]

(***************************************************************************)
(* HostsEntry.get_entry_type and HostsEntry.str_to_hostentry               *)
(***************************************************************************)
\* the value returned for one line of the file ("False" is the failure
\* signal), or "IndexError" when the line has no first character or token
get_entry_type(hosts_entry) ==
    IF hosts_entry = <<>> THEN "IndexError"
    ELSE IF hosts_entry[1] = HASH THEN "comment"
    ELSE IF hosts_entry[1] = NL THEN "blank"
    ELSE LET entry_chunks == split(hosts_entry)
         IN  IF entry_chunks = <<>> THEN "IndexError"
             ELSE IF is_ipv4(entry_chunks[1]) THEN "ipv4"
             ELSE IF is_ipv6(entry_chunks[1]) THEN "ipv6"
             ELSE "False"

NoEntry == HostsEntry(0, "", None, None, None)

Parsed(e) == [ret |-> "entry", entry |-> e, error |-> ""]
ParsedFalse == [ret |-> "False", entry |-> NoEntry, error |-> ""]
ParseRaised(err) == [ret |-> "raise", entry |-> NoEntry, error |-> err]

\* HostsEntry(...) as called by the parser: the object or the exception
Construct(id, entry_type, address, comment, names) ==
    LET err == HostsEntry_raises(entry_type, address, comment, names)
    IN  IF err = ""
        THEN Parsed(HostsEntry(id, entry_type, address, comment, names))
        ELSE ParseRaised(err)

\* mutant: the names after the address are not validated
str_to_hostentry_nocheck(id, entry) ==
    LET line_parts == split(strip(entry))
    IN  IF line_parts = <<>> THEN ParseRaised("IndexError")
        ELSE IF line_parts[1][1] = HASH
             THEN Construct(id, "comment", None, line_parts[1], None)
        ELSE IF is_ipv4(line_parts[1])
             THEN Construct(id, "ipv4", line_parts[1], None, Tail(line_parts))
        ELSE IF is_ipv6(line_parts[1])
             THEN Construct(id, "ipv6", line_parts[1], None, Tail(line_parts))
        ELSE ParsedFalse

\* str_to_hostentry(entry) for a str argument; id is the identity of the
\* object it creates
str_to_hostentry(id, entry) ==
    LET line_parts == split(strip(entry))
    IN  IF line_parts = <<>> THEN ParseRaised("IndexError")
        ELSE IF line_parts[1][1] = HASH
             THEN Construct(id, "comment", None, line_parts[1], None)
        ELSE IF is_ipv4(line_parts[1])
             THEN IF valid_hostnames(Tail(line_parts))
                  THEN Construct(id, "ipv4", line_parts[1], None,
                                 Tail(line_parts))
                  ELSE ParsedFalse
        ELSE IF is_ipv6(line_parts[1])
             THEN IF valid_hostnames(Tail(line_parts))
                  THEN Construct(id, "ipv6", line_parts[1], None,
                                 Tail(line_parts))
                  ELSE ParsedFalse
        ELSE ParsedFalse

(***************************************************************************)
(* Hosts.write: the text written for the entries, in order                 *)
(***************************************************************************)
\* mutant: a blank instead of the TAB after the address
write_line_blank(line) ==
    (IF line.entry_type = "comment" THEN line.comment ELSE <<>>)
    \o (IF line.entry_type = "blank" THEN <<NL>> ELSE <<>>)
    \o (IF IsAddressType(line)
        THEN line.address \o <<SP>> \o join(<<SP>>, line.names) \o <<NL>>
        ELSE <<>>)

write_line(line) ==
    (IF line.entry_type = "comment" THEN line.comment ELSE <<>>)
    \o (IF line.entry_type = "blank" THEN <<NL>> ELSE <<>>)
    \o (IF line.entry_type = "ipv4"
        THEN line.address \o <<TAB>> \o join(<<SP>>, line.names) \o <<NL>>
        ELSE <<>>)
    \o (IF line.entry_type = "ipv6"
        THEN line.address \o <<TAB>> \o join(<<SP>>, line.names) \o <<NL>>
        ELSE <<>>)

RECURSIVE write(_)
write(es) ==
    IF es = <<>> THEN <<>> ELSE write_line(Head(es)) \o write(Tail(es))

Min(a, b) == IF a < b THEN a ELSE b

\* one call of write(): the file afterwards and whether it returned.  A
\* failing call leaves the file as it was (open failed: cut < 0) or with
\* the text of the first cut entries (the write stopped there).
do_write(es, file, fails, cut) ==
    IF ~fails THEN [ok |-> TRUE, file |-> write(es)]
    ELSE [ok |-> FALSE,
          file |-> IF cut < 0 THEN file
                   ELSE write(SubSeq(es, 1, Min(cut, Len(es))))]

(***************************************************************************)
(* Hosts.count                                                             *)
(***************************************************************************)
Set(seq) == {seq[i] : i \in 1..Len(seq)}

\* mutant: the name lists are compared for equality
count_name_match_equal(host, entry) ==
    /\ host.names # None
    /\ entry.names # None
    /\ host.names = entry.names

\* lines 174-175: host counts towards name_matches
count_name_match(host, entry) ==
    /\ host.names # None
    /\ entry.names # None
    /\ Set(entry.names) \cap Set(host.names) # {}

\* mutant: an address counts only when the name lists are equal too
count_address_match_names(host, entry) ==
    /\ host.address # None
    /\ host.address = entry.address
    /\ host.names = entry.names

\* lines 177-178: host counts towards address_matches
count_address_match(host, entry) ==
    /\ host.address # None
    /\ host.address = entry.address

\* mutant: the comment is compared without its surrounding whitespace
count_comment_match_strip(host, entry) == host.comment = strip(entry.comment)

\* line 181: host counts towards comment_matches
count_comment_match(host, entry) == host.comment = entry.comment

count(es, entry) ==
    [address_matches |->
        IF IsAddressType(entry)
        THEN Cardinality({i \in 1..Len(es) : count_address_match(es[i], entry)})
        ELSE 0,
     name_matches |->
        IF IsAddressType(entry)
        THEN Cardinality({i \in 1..Len(es) : count_name_match(es[i], entry)})
        ELSE 0,
     comment_matches |->
        IF entry.entry_type = "comment"
        THEN Cardinality({i \in 1..Len(es) : count_comment_match(es[i], entry)})
        ELSE 0]

(***************************************************************************)
(* Hosts.remove                                                            *)
(***************************************************************************)
\* mutant: the address is not compared
remove_by_names_only(existing_entry, entry) ==
    /\ existing_entry.names # None
    /\ entry.names # None
    /\ \/ existing_entry.names = entry.names
       \/ Set(existing_entry.names) \cap Set(entry.names) # {}

\* lines 197-202: existing_entry is appended to removal_list (and counted
\* in removed) by the address/names test
remove_by_names(existing_entry, entry) ==
    /\ existing_entry.names # None
    /\ entry.names # None
    /\ \/ existing_entry.address = entry.address
       \/ existing_entry.names = entry.names
       \/ Set(existing_entry.names) \cap Set(entry.names) # {}

\* line 205: existing_entry is appended to removal_list by the comment test
remove_by_comment(existing_entry, entry) ==
    /\ entry.comment # None
    /\ existing_entry.comment = entry.comment

RECURSIVE removal_list(_, _)
\* lines 195-206: the identities appended to removal_list, in order
removal_list(es, entry) ==
    IF es = <<>> THEN <<>>
    ELSE (IF remove_by_names(Head(es), entry) THEN <<Head(es).id>> ELSE <<>>)
         \o (IF remove_by_comment(Head(es), entry)
             THEN <<Head(es).id>> ELSE <<>>)
         \o removal_list(Tail(es), entry)

\* lines 195-204: the value of removed after the scan
removed_count(es, entry) ==
    Cardinality({i \in 1..Len(es) : remove_by_names(es[i], entry)})

\* list.remove(x): without the first element that is x; x must be there
list_remove(es, id) ==
    LET i == CHOOSE k \in 1..Len(es) :
                 es[k].id = id /\ \A j \in 1..(k - 1) : es[j].id # id
    IN  SubSeq(es, 1, i - 1) \o SubSeq(es, i + 1, Len(es))

\* mutant: only the first entry of removal_list is removed
remove_all_first(es, rl) ==
    IF rl = <<>> THEN [ok |-> TRUE, entries |-> es]
    ELSE IF \A k \in 1..Len(es) : es[k].id # Head(rl)
         THEN [ok |-> FALSE, entries |-> es]
         ELSE [ok |-> TRUE, entries |-> list_remove(es, Head(rl))]

RECURSIVE remove_all(_, _)
\* lines 207-208: ok is FALSE when a list.remove raised ValueError; the
\* entries are then as that call found them
remove_all(es, rl) ==
    IF rl = <<>> THEN [ok |-> TRUE, entries |-> es]
    ELSE IF \A k \in 1..Len(es) : es[k].id # Head(rl)
         THEN [ok |-> FALSE, entries |-> es]
         ELSE remove_all(list_remove(es, Head(rl)), Tail(rl))

\* the value remove returns once the file is written (lines 210-212)
remove_return(removed) == IF removed > 0 THEN "True" ELSE "False"

\* remove(entry): the entries and the file afterwards, the value returned
\* ("raise" with the exception in error), the write() calls made and the
\* removal_list it built
remove(es, file, entry, fails, cut) ==
    LET rl == removal_list(es, entry)
        r == remove_all(es, rl)
        w == do_write(r.entries, file, fails, cut)
    IN  IF ~r.ok
        THEN [entries |-> r.entries, file |-> file, ret |-> "raise",
              error |-> "ValueError", writes |-> 0, removed |-> rl]
        ELSE IF ~w.ok
        THEN [entries |-> r.entries, file |-> w.file, ret |-> "raise",
              error |-> "IOError", writes |-> 1, removed |-> rl]
        ELSE [entries |-> r.entries, file |-> w.file,
              ret |-> remove_return(removed_count(es, entry)),
              error |-> "", writes |-> 1, removed |-> rl]

(***************************************************************************)
(* Hosts.add                                                               *)
(***************************************************************************)
\* mutant: only an address match makes add return False
add_rejects_address_only(es, entry, force) ==
    \/ /\ entry.entry_type = "comment"
       /\ count(es, entry).comment_matches >= 1
    \/ /\ IsAddressType(entry)
       /\ ~force
       /\ count(es, entry).address_matches # 0

\* lines 139-148: add returns False without touching the entries
add_rejects(es, entry, force) ==
    \/ /\ entry.entry_type = "comment"
       /\ count(es, entry).comment_matches >= 1
    \/ /\ IsAddressType(entry)
       /\ ~force
       /\ \/ count(es, entry).address_matches # 0
          \/ count(es, entry).name_matches # 0

\* lines 149-150: add calls remove(entry) first
add_removes_first(entry, force) == IsAddressType(entry) /\ force

Outcome(es, file, ret, error, writes, appended, removed) ==
    [entries |-> es, file |-> file, ret |-> ret, error |-> error,
     writes |-> writes, appended |-> appended, removed |-> removed]

\* mutant: the entry is appended and True returned without write()
add_append_nowrite(es, file, entry, fails, cut, writes, removed) ==
    Outcome(Append(es, entry), file, "True", "", writes, TRUE, removed)

\* mutant: the IOError of write() is caught and the append undone
add_append_rollback(es, file, entry, fails, cut, writes, removed) ==
    LET appended == Append(es, entry)
        w == do_write(appended, file, fails, cut)
    IN  IF w.ok
        THEN Outcome(appended, w.file, "True", "", writes + 1, TRUE, removed)
        ELSE Outcome(es, w.file, "False", "", writes + 1, TRUE, removed)

\* mutant: the entry is put in front of the list
add_append_front(es, file, entry, fails, cut, writes, removed) ==
    LET appended == <<entry>> \o es
        w == do_write(appended, file, fails, cut)
    IN  IF w.ok
        THEN Outcome(appended, w.file, "True", "", writes + 1, TRUE, removed)
        ELSE Outcome(appended, w.file, "raise", "IOError", writes + 1, TRUE,
                     removed)

\* lines 151-153: append, write, return True; fails says the write raises
add_append(es, file, entry, fails, cut, writes, removed) ==
    LET appended == Append(es, entry)
        w == do_write(appended, file, fails, cut)
    IN  IF w.ok
        THEN Outcome(appended, w.file, "True", "", writes + 1, TRUE, removed)
        ELSE Outcome(appended, w.file, "raise", "IOError", writes + 1, TRUE,
                     removed)

\* add(entry, force) where parsed is the entry given, or what
\* str_to_hostentry made of the str given.  failAt numbers the write() call
\* that raises (0: none).
add(es, file, parsed, force, failAt, cut) ==
    IF parsed.ret = "raise"
    THEN Outcome(es, file, "raise", parsed.error, 0, FALSE, <<>>)
    ELSE IF parsed.ret = "False"
    THEN Outcome(es, file, "raise", "AttributeError", 0, FALSE, <<>>)
    ELSE IF add_rejects(es, parsed.entry, force)
    THEN Outcome(es, file, "False", "", 0, FALSE, <<>>)
    ELSE IF add_removes_first(parsed.entry, force)
    THEN LET r == remove(es, file, parsed.entry, failAt = 1, cut)
         IN  IF r.ret = "raise"
             THEN Outcome(r.entries, r.file, "raise", r.error, r.writes,
                          FALSE, r.removed)
             ELSE add_append(r.entries, r.file, parsed.entry, failAt = 2,
                             cut, r.writes, r.removed)
    ELSE add_append(es, file, parsed.entry, failAt = 1, cut, 0, <<>>)

(***************************************************************************)
(* Hosts.populate_entries (called by Hosts.__init__ on an empty list)      *)
(***************************************************************************)
\* lines 223-233 for one line: what is appended, or the exception
populate_line(id, hosts_entry) ==
    LET entry_type == get_entry_type(hosts_entry)
        chunked_entry == split(hosts_entry)
    IN  IF entry_type = "IndexError" THEN ParseRaised("IndexError")
        ELSE IF entry_type = "comment"
        THEN Construct(id, "comment", None, hosts_entry, None)
        ELSE IF entry_type = "blank"
        THEN Construct(id, "blank", None, None, None)
        ELSE IF entry_type \in {"ipv4", "ipv6"}
        THEN Construct(id, entry_type, chunked_entry[1], None,
                       Tail(chunked_entry))
        ELSE ParsedFalse

RECURSIVE populate_from(_, _, _)
\* lines 222-233: the loop over the lines; a line for which no branch is
\* taken appends nothing
populate_from(lines, es, nextId) ==
    IF lines = <<>> THEN [entries |-> es, error |-> ""]
    ELSE LET p == populate_line(nextId, Head(lines))
         IN  IF p.ret = "raise" THEN [entries |-> es, error |-> p.error]
             ELSE IF p.ret = "False"
             THEN populate_from(Tail(lines), es, nextId)
             ELSE populate_from(Tail(lines), Append(es, p.entry), nextId + 1)

(***************************************************************************)
(* The inputs: the lines a hosts file is made of, the HostsEntry objects   *)
(* the caller builds once and passes to add and remove, and the strs it    *)
(* passes to add.                                                          *)
(***************************************************************************)
CommentLine == <<HASH, SP, "a", SP, "b", NL>>

FileLines ==
    { <<"1.1.1.1", TAB, "a", NL>>,
      <<"1.1.1.1", SP, "b", NL>>,
      <<"::1", TAB, "c", NL>>,
      CommentLine,
      <<NL>>,
      <<"a", SP, "b", NL>>,
      <<SP, NL>>,
      <<"2.2.2.2", NL>> }

RECURSIVE Flatten(_)
Flatten(ls) == IF ls = <<>> THEN <<>> ELSE Head(ls) \o Flatten(Tail(ls))

\* a file whose last line has no terminator
Chop(f) ==
    IF f # <<>> /\ f[Len(f)] = NL THEN SubSeq(f, 1, Len(f) - 1) ELSE f

TerminatedFiles ==
    { Flatten(ls) : ls \in UNION { [1..n -> FileLines] : n \in 0..MaxFileLines } }

Files == TerminatedFiles \cup { Chop(f) : f \in TerminatedFiles }

Pool ==
    << HostsEntry(1, "ipv4", <<"1.1.1.1">>, None, << <<"a">> >>),
       HostsEntry(2, "ipv6", <<"::1">>, None, << <<"b">> >>),
       HostsEntry(3, "ipv4", <<"2.2.2.2">>, None, << <<"a">>, <<"c">> >>),
       HostsEntry(4, "comment", None, CommentLine, None),
       HostsEntry(5, "ipv4", <<"2.2.2.2">>, CommentLine, << <<"b">> >>) >>

PoolSize == Len(Pool)

AddLines ==
    { <<"2.2.2.2", SP, "b", NL>>,
      CommentLine,
      <<HASH, SP, "c", NL>>,
      <<"1.1.1.1", SP, "-a", NL>>,
      <<"a", SP, "b", NL>> }

\* The caller keeps no reference to an object made by str_to_hostentry or
\* populate_entries, so only its being distinct from the other objects of
\* the list matters: such an object is numbered by its place in the list.
Renumber(es) ==
    [i \in 1..Len(es) |->
        IF es[i].id > PoolSize THEN [es[i] EXCEPT !.id = PoolSize + i]
        ELSE es[i]]

\* the identity of an object created now: one no entry of the list has
FreshId(es) == PoolSize + Len(es) + 1

populate_entries(f) == populate_from(file_lines(f, <<>>), <<>>, PoolSize + 1)

\* the write() call that raises (0: none) and where it stops
NoFault == {<<0, -1>>}
WriteFaults == NoFault \cup ((1..2) \X {-1, 0})

(***************************************************************************)
(* State                                                                   *)
(***************************************************************************)
VARIABLES
    hosts,      \* TRUE once a Hosts object exists
    entries,    \* Hosts.entries
    file,       \* the text of the file at hosts_path
    last,       \* the last call: its arguments and its outcome
    nfaults     \* the write() calls that raised so far

vars == <<hosts, entries, file, last, nfaults>>

\* a call: its arguments (line: the str given to add; entry: the HostsEntry
\* given or parsed), the value it returned ("raise": it raised error), the
\* write() calls it made, whether add appended, the removal_list of remove,
\* the write() call that was made to fail (0: none), and the dict that
\* count returned
NoCounts ==
    [address_matches |-> 0, name_matches |-> 0, comment_matches |-> 0]

Call(op, line, entry, force, r, fault) ==
    [op |-> op, line |-> line, entry |-> entry, force |-> force,
     ret |-> r.ret, error |-> r.error, writes |-> r.writes,
     appended |-> r.appended, removed |-> r.removed, fault |-> fault,
     loaded |-> FALSE, counts |-> NoCounts]

Returned(ret, error, writes) ==
    [ret |-> ret, error |-> error, writes |-> writes, appended |-> FALSE,
     removed |-> <<>>]

Init ==
    /\ hosts = FALSE
    /\ entries = <<>>
    /\ file \in Files
    /\ last = Call("none", None, NoEntry, FALSE, Returned("None", "", 0), 0)
    /\ nfaults = 0

\* Hosts(path): __init__ and populate_entries
Load ==
    LET r == populate_entries(file)
    IN  /\ ~hosts
        /\ IF r.error = ""
           THEN /\ hosts' = TRUE
                /\ entries' = r.entries
                /\ last' = Call("load", None, NoEntry, FALSE,
                                Returned("None", "", 0), 0)
           ELSE /\ UNCHANGED <<hosts, entries>>
                /\ last' = Call("load", None, NoEntry, FALSE,
                                Returned("raise", r.error, 0), 0)
        /\ UNCHANGED <<file, nfaults>>

\* the faults a call may still meet
Allowed(faults) == IF nfaults < MaxFaults THEN faults ELSE NoFault

Faulted(error) == nfaults' = nfaults + (IF error = "IOError" THEN 1 ELSE 0)

\* hosts.write(); loaded: the entries are as Hosts(path) read them
WriteWith(faults) ==
    /\ hosts
    /\ \E fault \in {f \in Allowed(faults) : f[1] < 2} :
          LET w == do_write(entries, file, fault[1] = 1, fault[2])
              err == IF w.ok THEN "" ELSE "IOError"
          IN  /\ file' = w.file
              /\ Faulted(err)
              /\ last' = [Call("write", None, NoEntry, FALSE,
                               Returned(IF w.ok THEN "None" ELSE "raise",
                                        err, 1), fault[1])
                          EXCEPT !.loaded = (last.op = "load" /\ last.ret = "None")]
    /\ UNCHANGED <<hosts, entries>>

AddCall(line, parsed, force, fault, cap) ==
    LET r == add(entries, file, parsed, force, fault[1], fault[2])
    IN  /\ fault[1] <= r.writes  \* the write() call that raises is made
        /\ Len(r.entries) <= cap
        /\ entries' = Renumber(r.entries)
        /\ file' = r.file
        /\ Faulted(r.error)
        /\ last' = Call("add", line, parsed.entry, force, r, fault[1])
        /\ UNCHANGED hosts

\* hosts.add(entry, force) with a HostsEntry
AddEntryWith(faults, cap) ==
    /\ hosts
    /\ \E i \in 1..PoolSize, force \in BOOLEAN, fault \in Allowed(faults) :
          AddCall(None, Parsed(Pool[i]), force, fault, cap)

\* hosts.add(entry, force) with a str
AddLineWith(faults, cap) ==
    /\ hosts
    /\ \E line \in AddLines, force \in BOOLEAN, fault \in Allowed(faults) :
          AddCall(line, str_to_hostentry(FreshId(entries), line), force, fault,
                  cap)

\* hosts.remove(entry)
RemoveWith(faults) ==
    /\ hosts
    /\ \E i \in 1..PoolSize, fault \in {f \in Allowed(faults) : f[1] < 2} :
          LET r == remove(entries, file, Pool[i], fault[1] = 1, fault[2])
          IN  /\ fault[1] <= r.writes
              /\ entries' = Renumber(r.entries)
              /\ file' = r.file
              /\ Faulted(r.error)
              /\ last' = Call("remove", None, Pool[i], FALSE,
                              [r EXCEPT !.entries = <<>>, !.file = <<>>]
                                 @@ [appended |-> FALSE],
                              fault[1])
    /\ UNCHANGED hosts

\* hosts.count(entry) with a HostsEntry
Count ==
    /\ hosts
    /\ \E i \in 1..PoolSize :
          last' = [Call("count", None, Pool[i], FALSE,
                        Returned("dict", "", 0), 0)
                   EXCEPT !.counts = count(entries, Pool[i])]
    /\ UNCHANGED <<hosts, entries, file, nfaults>>

\* every write() succeeds
Write == WriteWith(NoFault)
AddEntry == AddEntryWith(NoFault, MaxEntries)
AddLine == AddLineWith(NoFault, MaxEntries)
Remove == RemoveWith(NoFault)

Next == Load \/ Write \/ AddEntry \/ AddLine \/ Remove

Spec == Init /\ [][Next]_vars

\* the calls that take HostsEntry objects, count among them
NextCount == Load \/ AddEntry \/ Remove \/ Count

SpecCount == Init /\ [][NextCount]_vars

\* a write() may raise IOError
WriteIO == WriteWith(WriteFaults)
AddEntryIO == AddEntryWith(WriteFaults, MaxEntriesIO)
AddLineIO == AddLineWith(WriteFaults, MaxEntriesIO)
RemoveIO == RemoveWith(WriteFaults)

NextIO == Load \/ WriteIO \/ AddEntryIO \/ AddLineIO \/ RemoveIO

\* the Hosts object is made from an empty file
InitIO == Init /\ file = <<>>

SpecIO == InitIO /\ [][NextIO]_vars

(***************************************************************************)
(* Properties                                                              *)
(***************************************************************************)
\* what an entry holds, whichever object holds it
Fields(e) ==
    [entry_type |-> e.entry_type, address |-> e.address, names |-> e.names,
     comment |-> e.comment]

\* existing has the address of the ipv4/ipv6 entry e, or shares a name with it
Conflicts(existing, e) ==
    \/ existing.address = e.address
    \/ Set(existing.names) \cap Set(e.names) # {}

\* an ipv4/ipv6 entry of the data model: an address and names, no comment
IsMapping(e) == IsAddressType(e) /\ e.comment = None

\* C1: add(e, force=False) of an ipv4/ipv6 entry e returns False and leaves
\* the entries and the file unchanged whenever an existing entry has e's
\* address or shares a name with e (an address match alone is enough).
C1_AddConflictRejected ==
    [][ ( /\ last'.op = "add"
          /\ IsAddressType(last'.entry)
          /\ ~last'.force
          /\ \E i \in 1..Len(entries) : Conflicts(entries[i], last'.entry) )
        => ( /\ last'.ret = "False"
             /\ entries' = entries
             /\ file' = file ) ]_vars

\* an add rejected for an address match alone: no existing entry shares a name
C1_Witness ==
    /\ last.op = "add"
    /\ IsAddressType(last.entry)
    /\ ~last.force
    /\ last.ret = "False"
    /\ \E i \in 1..Len(entries) : entries[i].address = last.entry.address
    /\ \A i \in 1..Len(entries) :
          Set(entries[i].names) \cap Set(last.entry.names) = {}

\* C2: after add(e, force=True) of an ipv4/ipv6 entry e whose address an
\* existing entry has returns True, exactly one entry has e's address, it is
\* e (the last entry), and no entry left from before conflicts with e.
C2_ForceAddReplaces ==
    [][ ( /\ last'.op = "add"
          /\ IsAddressType(last'.entry)
          /\ last'.force
          /\ last'.ret = "True"
          /\ \E i \in 1..Len(entries) :
                entries[i].address = last'.entry.address )
        => LET e == last'.entry
               n == Len(entries')
           IN  /\ n >= 1
               /\ Fields(entries'[n]) = Fields(e)
               /\ e.id <= PoolSize => entries'[n].id = e.id
               /\ Cardinality({j \in 1..n :
                                  entries'[j].address = e.address}) = 1
               /\ \A j \in 1..(n - 1) : ~Conflicts(entries'[j], e) ]_vars

\* a forced add of 2.2.2.2 [a, c] that removed the entry 2.2.2.2 [b] (same
\* address, no common name) and another entry
C2_Witness ==
    /\ last.op = "add"
    /\ last.force
    /\ last.ret = "True"
    /\ last.entry = Pool[3]
    /\ 5 \in Set(last.removed)
    /\ Len(last.removed) >= 2
    /\ entries[Len(entries)] = Pool[3]

\* C3: remove(e) returns True if and only if the call removed at least one
\* entry from the list.
C3_RemoveTrueIffRemoved ==
    [][ (last'.op = "remove" /\ last'.ret # "raise")
        => (last'.ret = "True" <=> Len(entries') < Len(entries)) ]_vars

\* C4: add of a comment entry whose text an existing comment entry has
\* returns False and leaves the entries as they were.
C4_DuplicateCommentRejected ==
    [][ ( /\ last'.op = "add"
          /\ last'.entry.entry_type = "comment"
          /\ \E i \in 1..Len(entries) :
                /\ entries[i].entry_type = "comment"
                /\ entries[i].comment = last'.entry.comment )
        => ( /\ last'.ret = "False"
             /\ entries' = entries ) ]_vars

C4_Witness ==
    /\ last.op = "add"
    /\ last.entry.entry_type = "comment"
    /\ last.ret = "False"
    /\ \E i \in 1..Len(entries) :
          /\ entries[i].entry_type = "comment"
          /\ entries[i].comment = last.entry.comment

\* C5: a load that does not fail yields exactly one entry per line of the
\* file, in line order (no line is skipped).
C5_LoadIsStrict ==
    (last.op = "load" /\ last.ret = "None")
    => LET lines == file_lines(file, <<>>)
       IN  /\ Len(entries) = Len(lines)
           /\ \A i \in 1..Len(lines) :
                 entries[i].entry_type = get_entry_type(lines[i])

\* C6: add of a raw comment line stores a comment entry whose comment is the
\* whole raw line.
C6_RawCommentVerbatim ==
    ( /\ last.op = "add"
      /\ last.line # None
      /\ last.line[1] = HASH
      /\ last.ret # "raise" )
    => last.entry.comment = last.line

\* every line is a comment, a blank, or an address followed by names
WellFormed(f) ==
    \A i \in 1..Len(file_lines(f, <<>>)) :
        LET line == file_lines(f, <<>>)[i]
        IN  \/ get_entry_type(line) \in {"comment", "blank"}
            \/ /\ get_entry_type(line) \in {"ipv4", "ipv6"}
               /\ Len(split(line)) >= 2

\* every ipv4/ipv6 line is address, TAB, names separated by one blank, newline
InSerializedForm(f) ==
    \A i \in 1..Len(file_lines(f, <<>>)) :
        LET line == file_lines(f, <<>>)[i]
            chunks == split(line)
        IN  get_entry_type(line) \in {"ipv4", "ipv6"}
            => line = chunks[1] \o <<TAB>> \o join(<<SP>>, Tail(chunks))
                      \o <<NL>>

\* every line ends with a newline
Terminated(f) == f = <<>> \/ f[Len(f)] = NL

\* C7 as stated: write() right after loading a well-formed file (here: one
\* whose last line ends with a newline too) leaves the text as it was.
C7_RoundTripAnyWellFormed ==
    [][ ( /\ last.op = "load"
          /\ last'.op = "write"
          /\ last'.ret = "None"
          /\ WellFormed(file)
          /\ Terminated(file) )
        => file' = file ]_vars

\* C7, amended: write() right after loading a well-formed file whose
\* ipv4/ipv6 lines are in the serialized form leaves the text as it was.
C7_RoundTripSerializedForm ==
    [][ ( /\ last.op = "load"
          /\ last'.op = "write"
          /\ last'.ret = "None"
          /\ WellFormed(file)
          /\ InSerializedForm(file) )
        => file' = file ]_vars

\* a file with a mapping and a line of another kind, loaded and written back
C7_Witness ==
    /\ last.op = "write"
    /\ last.loaded
    /\ last.ret = "None"
    /\ WellFormed(file)
    /\ InSerializedForm(file)
    /\ Len(entries) >= 2
    /\ \E i \in 1..Len(entries) : IsAddressType(entries[i])
    /\ \E i \in 1..Len(entries) : ~IsAddressType(entries[i])

\* existing is an ipv4/ipv6 entry that remove(e) is to remove
Matches(existing, e) ==
    /\ IsAddressType(existing)
    /\ \/ existing.address = e.address
       \/ existing.names = e.names
       \/ Set(existing.names) \cap Set(e.names) # {}

RECURSIVE Without(_, _)
\* es without the entries remove(e) is to remove, in the same order
Without(es, e) ==
    IF es = <<>> THEN <<>>
    ELSE (IF Matches(Head(es), e) THEN <<>> ELSE <<Head(es)>>)
         \o Without(Tail(es), e)

\* C8: remove(e) of an ipv4/ipv6 entry e removes exactly the ipv4/ipv6
\* entries that have e's address, e's name list or a name of e, all of them
\* in the one call, and keeps the other entries in their order.
C8_RemoveExactlyMatching ==
    [][ (last'.op = "remove" /\ IsMapping(last'.entry))
        => ( /\ last'.ret # "raise"
             /\ entries' = Renumber(Without(entries, last'.entry)) ) ]_vars

\* remove(2.2.2.2 [a, c]) took out 2.2.2.2 [b] (address only) and
\* 1.1.1.1 [a] (a name) and left another entry
C8_Witness ==
    /\ last.op = "remove"
    /\ last.entry = Pool[3]
    /\ last.ret = "True"
    /\ 5 \in Set(last.removed)
    /\ 1 \in Set(last.removed)
    /\ Len(entries) >= 1

\* the text of one entry: comment text verbatim; a newline for blank;
\* address, TAB, the names joined by blanks, newline for ipv4/ipv6
SerializedEntry(e) ==
    CASE e.entry_type = "comment" -> e.comment
      [] e.entry_type = "blank" -> <<NL>>
      [] OTHER -> e.address \o <<TAB>> \o join(<<SP>>, e.names) \o <<NL>>

RECURSIVE Serialized(_)
Serialized(es) ==
    IF es = <<>> THEN <<>> ELSE SerializedEntry(Head(es)) \o Serialized(Tail(es))

\* C9: after an add that returned True and after a remove that returned,
\* the file is the serialization of the entries; an add that returned
\* False made no write.
C9_FileIsSerialization ==
    /\ ( \/ last.op = "add" /\ last.ret = "True"
         \/ last.op = "remove" /\ last.ret # "raise" )
       => file = Serialized(entries)
    /\ (last.op = "add" /\ last.ret = "False") => last.writes = 0

\* add("2.2.2.2 b") on an empty collection wrote 2.2.2.2<TAB>b<newline>
C9_Witness ==
    /\ last.op = "add"
    /\ last.ret = "True"
    /\ last.line = <<"2.2.2.2", SP, "b", NL>>
    /\ Len(entries) = 1
    /\ file = <<"2.2.2.2", TAB, "b", NL>>

\* C10: when the write() that add makes after appending raises, add raises
\* IOError (it does not return True) and the appended entry stays the last
\* entry of the list.
C10_WriteFailureReported ==
    (last.op = "add" /\ last.appended /\ last.fault # 0)
    => ( /\ last.ret = "raise"
         /\ last.error = "IOError"
         /\ Len(entries) >= 1
         /\ Fields(entries[Len(entries)]) = Fields(last.entry) )

C10_Witness ==
    /\ last.op = "add"
    /\ last.appended
    /\ last.fault # 0
    /\ last.ret = "raise"
    /\ Len(entries) = 2

\* C11: count(e) of an ipv4/ipv6 entry e returns the number of ipv4/ipv6
\* entries with e's address, the number of them that share a name with e,
\* and 0 comment matches, and changes neither the entries nor the file.
C11_CountIsExact ==
    [][ (last'.op = "count" /\ IsAddressType(last'.entry))
        => LET e == last'.entry
               mappings == {i \in 1..Len(entries) : IsAddressType(entries[i])}
           IN  /\ last'.counts.address_matches =
                     Cardinality({i \in mappings :
                                     entries[i].address = e.address})
               /\ last'.counts.name_matches =
                     Cardinality({i \in mappings :
                         Set(entries[i].names) \cap Set(e.names) # {}})
               /\ last'.counts.comment_matches = 0
               /\ entries' = entries
               /\ file' = file ]_vars

\* count(2.2.2.2 [a, c]) with three entries: one counted for its address
\* only, one for a name only, one for neither
C11_Witness ==
    /\ last.op = "count"
    /\ last.entry = Pool[3]
    /\ last.counts.address_matches = 1
    /\ last.counts.name_matches = 1
    /\ Len(entries) = 3
    /\ \E i \in 1..3 : entries[i] = Pool[5]
    /\ \E i \in 1..3 : entries[i] = Pool[1]

\* the raw lines of C12: a valid address followed by an invalid hostname, or
\* a first token that neither starts with '#' nor is a valid address
FailsToParse(line) ==
    LET tokens == split(strip(line))
    IN  /\ tokens # <<>>
        /\ tokens[1][1] # HASH
        /\ \/ /\ is_ipv4(tokens[1]) \/ is_ipv6(tokens[1])
              /\ ~valid_hostnames(Tail(tokens))
           \/ ~(is_ipv4(tokens[1]) \/ is_ipv6(tokens[1]))

\* C12: add of a raw line that fails to parse ends in an error, not in a
\* False return, and leaves the entries and the file as they were.
C12_AddUnparseableRaises ==
    [][ (last'.op = "add" /\ last'.line # None /\ FailsToParse(last'.line))
        => /\ last'.ret = "raise"
           /\ entries' = entries
           /\ file' = file ]_vars

\* add('1.1.1.1 -a\n') on a collection that holds entries has raised
C12_Witness ==
    /\ last.op = "add"
    /\ last.line = <<"1.1.1.1", SP, "-a", NL>>
    /\ last.ret = "raise"
    /\ last.error = "AttributeError"
    /\ entries # <<>>
    /\ file = write(entries)

\* classify as C13 states it: blank, comment, the family of the first token,
\* the failure signal for everything else
Classify(line) ==
    IF line = <<>> \/ line = <<NL>> THEN "blank"
    ELSE IF line[1] = HASH THEN "comment"
    ELSE LET tokens == split(line)
         IN  IF tokens # <<>> /\ is_ipv4(tokens[1]) THEN "ipv4"
             ELSE IF tokens # <<>> /\ is_ipv6(tokens[1]) THEN "ipv6"
             ELSE "False"

\* C13: get_entry_type returns, without raising, blank, comment, ipv4, ipv6
\* or the failure signal as the rule says, for every line the load has
\* handed to it.
C13_ClassifyIsTotal ==
    last.op = "load"
        => \A line \in Set(file_lines(file, <<>>)) :
               get_entry_type(line) = Classify(line)

\* what identifies an entry across a call: the object for one the caller
\* built, the field values for one the parser built
Key(e) == IF e.id <= PoolSize THEN e ELSE [e EXCEPT !.id = 0]

Keys(es) == [i \in 1..Len(es) |-> Key(es[i])]

RECURSIVE IsSubseq(_, _)
\* s is t with some elements left out
IsSubseq(s, t) ==
    IF s = <<>> THEN TRUE
    ELSE IF t = <<>> THEN FALSE
    ELSE \/ Head(s) = Head(t) /\ IsSubseq(Tail(s), Tail(t))
         \/ IsSubseq(s, Tail(t))

\* C14: when add returns True the added entry is the last of the entries,
\* the entries before it are entries of the prior sequence in their prior
\* order, and with force=False they are the whole prior sequence.
C14_AddedEntryIsLast ==
    [][ (last'.op = "add" /\ last'.ret = "True")
        => LET n == Len(entries')
           IN  /\ n >= 1
               /\ Key(entries'[n]) = Key(last'.entry)
               /\ IsSubseq(Keys(SubSeq(entries', 1, n - 1)), Keys(entries))
               /\ ~last'.force
                    => Keys(SubSeq(entries', 1, n - 1)) = Keys(entries) ]_vars

\* a forced add has removed one entry and left two different ones, with the
\* added entry after them
C14_Witness ==
    /\ last.op = "add"
    /\ last.force
    /\ last.ret = "True"
    /\ Len(last.removed) = 1
    /\ Len(entries) = 3
    /\ Key(entries[1]) # Key(entries[2])
    /\ Key(entries[3]) = Key(last.entry)
    /\ file = write(entries)

\* no two ipv4/ipv6 entries of es share an address or a name
ConflictFree(es) ==
    \A i, j \in 1..Len(es) :
        (i < j /\ IsAddressType(es[i]) /\ IsAddressType(es[j]))
            => ~Conflicts(es[i], es[j])

\* C15: an add (forced or not) or a remove on a collection in which no two
\* ipv4/ipv6 entries share an address or a name leaves a collection in which
\* no two do.
C15_ConflictFreedomPreserved ==
    [][ (last'.op \in {"add", "remove"} /\ ConflictFree(entries))
        => ConflictFree(entries') ]_vars

\* a forced add has removed the entries in conflict with the new one and
\* left another mapping beside it
C15_Witness ==
    /\ last.op = "add"
    /\ last.force
    /\ last.ret = "True"
    /\ last.removed # <<>>
    /\ Cardinality({i \in 1..Len(entries) : IsAddressType(entries[i])}) >= 2
    /\ ConflictFree(entries)

FieldsOf(es) == [i \in 1..Len(es) |-> Fields(es[i])]

\* C16: after an add or a remove that returned, a new Hosts on the same file
\* has entries of the same length and with, position by position, the same
\* kind, address, names and comment as the entries in memory (stated here
\* for the collections whose ipv4/ipv6 entries carry no comment).
C16_ReloadPreservesEntries ==
    ( /\ last.op \in {"add", "remove"}
      /\ last.ret \in {"True", "False"}
      /\ \A i \in 1..Len(entries) :
            IsAddressType(entries[i]) => IsMapping(entries[i]) )
        => LET reloaded == populate_entries(file)
           IN  /\ reloaded.error = ""
               /\ FieldsOf(reloaded.entries) = FieldsOf(entries)

\* C17: with every write() succeeding, remove(entry) returns for every entry
\* the constructor accepts: no entry is marked twice, and the file holds the
\* entries that are left.
C17_RemoveCompletes ==
    last.op = "remove"
        => /\ last.ret # "raise"
           /\ \A i, j \in 1..Len(last.removed) :
                  i # j => last.removed[i] # last.removed[j]
           /\ file = write(entries)

====
